---- MODULE Spec2Model ----
(***************************************************************************)
(* A model of kingdon's Algebra (src/kingdon/algebra.py): construction of  *)
(* the blade-name bijection, the swap / sign / Cayley tables, the grade    *)
(* index, the BladeDict blade cache and the per-operator dispatch caches.  *)
(*                                                                         *)
(* Python strings are modelled as sequences of character codes, so that    *)
(* string comparison (sorting of names, bubble sort of digits) is the      *)
(* comparison Python performs.  dicts whose iteration order matters are    *)
(* modelled as sequences of <<key, value>> items in insertion order.       *)
(***************************************************************************)
EXTENDS Integers, Sequences, FiniteSets, TLC

(***************************************************************************)
(* Bounds of the model.                                                    *)
(***************************************************************************)
\* largest p + q + r handed to the constructor
MaxDim == 4
\* longest explicit signature handed to the constructor
MaxSigLen == 2
\* largest p + q + r of the algebras whose BladeDicts are exercised
MaxBladeDim == 2
\* largest p of the algebras whose operators are invoked
MaxOpsDim == 1
\* most operator invocations on one algebra
MaxCalls == 2
\* the longest list _sort_product is called with
MaxProdLen == 5

(***************************************************************************)
(* Characters and strings.                                                 *)
(***************************************************************************)
\* ord('e'), ord('-'), ord('0'), ord('a'), ord('x')
CH_e == 101
CH_minus == 45
CH_0 == 48
CH_a == 97
CH_x == 120

\* one hexadecimal digit of hex(): '0'..'9', 'a'..'f'
HexChar(n) == IF n < 10 THEN CH_0 + n ELSE CH_a + (n - 10)

RECURSIVE HexNat(_)
\* the digits of hex(n)[2:] for n >= 0
HexNat(n) == IF n < 16 THEN <<HexChar(n)>> ELSE HexNat(n \div 16) \o <<HexChar(n % 16)>>

\* hex(n)[2:]; for a negative n hex(n) is '-0x..', so the slice starts at 'x'
HexTail(n) == IF n < 0 THEN <<CH_x>> \o HexNat(-n) ELSE HexNat(n)

\* int(key, base=16) for a one-character key
IntOfHexChar(c) == IF c >= CH_a THEN c - CH_a + 10 ELSE c - CH_0

RECURSIVE StrLess(_, _)
\* Python's s < t on strings: lexicographic on code points
StrLess(s, t) ==
    IF t = <<>> THEN FALSE
    ELSE IF s = <<>> THEN TRUE
    ELSE IF Head(s) # Head(t) THEN Head(s) < Head(t)
    ELSE StrLess(Tail(s), Tail(t))

RECURSIVE Pow2(_)
Pow2(n) == IF n = 0 THEN 1 ELSE 2 * Pow2(n - 1)

\* eJ & 2**ei is non-zero
BitSet(eJ, ei) == (eJ \div Pow2(ei)) % 2 = 1

RECURSIVE ForRange(_, _, _, _)
\* acc after "for k in range(lo, hi + 1): acc = Body(acc, k)".  The range is
\* split in halves, and the first half is evaluated (by the comparison in
\* Rest) before the second half starts, so that the evaluation nests
\* logarithmically deep.
ForRange(Body(_, _), acc, lo, hi) ==
    IF lo > hi THEN acc
    ELSE IF lo = hi THEN Body(acc, lo)
    ELSE LET Rest(done) ==
                 IF done = done THEN ForRange(Body, done, ((lo + hi) \div 2) + 1, hi)
                 ELSE done
         IN Rest(ForRange(Body, acc, lo, (lo + hi) \div 2))

RECURSIVE PopCount(_)
\* bin(i).count('1')
PopCount(i) == IF i = 0 THEN 0 ELSE (i % 2) + PopCount(i \div 2)

(***************************************************************************)
(* Algebra.__post_init__: the name bijection.                              *)
(***************************************************************************)
RECURSIVE CanonDigitsFromOne(_, _, _, _)
\* the join with range(1, d) in place of range(0, d): generator 0 gets no digit
CanonDigitsFromOne(eJ, ei, dim, start) ==
    IF ei >= dim THEN <<>>
    ELSE (IF ei >= 1 /\ BitSet(eJ, ei) THEN HexTail((ei + 1) + start - 1) ELSE <<>>)
         \o CanonDigitsFromOne(eJ, ei + 1, dim, start)

RECURSIVE CanonDigits(_, _, _, _)
\* ''.join(hex(num + start_index - 1)[2:] for ei in range(0, d) if num),
\* where num = (eJ & 2**ei).bit_length() = ei + 1 when the bit is set
CanonDigits(eJ, ei, dim, start) ==
    IF ei >= dim THEN <<>>
    ELSE (IF BitSet(eJ, ei) THEN HexTail((ei + 1) + start - 1) ELSE <<>>)
         \o CanonDigits(eJ, ei + 1, dim, start)

\* bin2canon: dict from the index to 'e' + digits
MakeBin2Canon(dim, start) ==
    [eJ \in 0 .. (Pow2(dim) - 1) |-> <<CH_e>> \o CanonDigits(eJ, 0, dim, start)]

\* position of a key among the items of an ordered dict, 0 when absent
KeyPos(items, k) ==
    IF \E i \in 1 .. Len(items) : items[i][1] = k
    THEN CHOOSE i \in 1 .. Len(items) : items[i][1] = k
    ELSE 0

\* d[k] = v on an ordered dict: replace in place or append
DictSet(items, k, v) ==
    LET pos == KeyPos(items, k) IN
    IF pos = 0 THEN Append(items, <<k, v>>)
    ELSE [items EXCEPT ![pos] = <<k, v>>]

\* {c: b for b, c in bin2canon.items()}, over the n indices
InvertDict(b2c, n) ==
    LET Body(acc, b) == DictSet(acc, b2c[b], b) IN ForRange(Body, <<>>, 0, n - 1)

\* the sort key lambda x: x[0]: the name alone, without its length
NameKeyLexOnly(s, t) == StrLess(s, t)

\* the sort key lambda x: (len(x[0]), x[0]) compared as tuples
NameKeyLess(s, t) == Len(s) < Len(t) \/ (Len(s) = Len(t) /\ StrLess(s, t))

\* insert an item before the first item whose key is greater (stable)
InsertSorted(sorted, item) ==
    LET greater == {i \in 1 .. Len(sorted) : NameKeyLess(item[1], sorted[i][1])}
        at == IF greater = {} THEN Len(sorted) + 1
              ELSE CHOOSE i \in greater : \A j \in greater : i <= j
    IN SubSeq(sorted, 1, at - 1) \o <<item>> \o SubSeq(sorted, at, Len(sorted))

\* sorted(items, key=...) of the first n items: a stable sort
SortedItems(items, n) ==
    LET Body(acc, k) == InsertSorted(acc, items[k]) IN ForRange(Body, <<>>, 1, n)

\* canon2bin: dict(sorted({c: b ...}.items(), key=lambda x: (len(x[0]), x[0])))
MakeCanon2Bin(b2c, dim) ==
    LET inv == InvertDict(b2c, Pow2(dim)) IN SortedItems(inv, Len(inv))

\* the keys of an ordered dict, in iteration order
Keys(items) == [i \in 1 .. Len(items) |-> items[i][1]]

\* k in d
HasKey(items, k) == KeyPos(items, k) # 0

\* d[k] for a key that is present
Lookup(items, k) == items[KeyPos(items, k)][2]

(***************************************************************************)
(* _sort_product: bubble passes until a pass makes no swap.                *)
(***************************************************************************)
RECURSIVE BubblePassNoCount(_, _, _)
\* the pass without swaps += 1
BubblePassNoCount(prod, i, swaps) ==
    IF i > Len(prod) - 1 THEN <<prod, swaps>>
    ELSE IF prod[i] > prod[i + 1]
         THEN BubblePassNoCount([prod EXCEPT ![i] = prod[i + 1], ![i + 1] = prod[i]],
                                i + 1, swaps)
         ELSE BubblePassNoCount(prod, i + 1, swaps)

RECURSIVE BubblePass(_, _, _)
\* for i in range(len(prod) - 1): swap prod[i], prod[i + 1] when out of order
\* (i is 1-based here); yields <<prod, swaps>>
BubblePass(prod, i, swaps) ==
    IF i > Len(prod) - 1 THEN <<prod, swaps>>
    ELSE IF prod[i] > prod[i + 1]
         THEN BubblePass([prod EXCEPT ![i] = prod[i + 1], ![i + 1] = prod[i]],
                         i + 1, swaps + 1)
         ELSE BubblePass(prod, i + 1, swaps)

RECURSIVE SortLoop(_, _, _)
\* while True: one pass; break when prev_swap == swaps
SortLoop(prod, swaps, prev_swap) ==
    LET after == BubblePass(prod, 1, swaps) IN
    IF prev_swap = after[2] THEN after
    ELSE SortLoop(after[1], after[2], after[2])

\* one pass only, without the while loop
SortProductOnePass(prod) ==
    IF Len(prod) > 1 THEN BubblePass(prod, 1, 0) ELSE <<prod, 0>>

\* _sort_product(prod): yields <<prod sorted in place, swaps>>
SortProduct(prod) ==
    IF Len(prod) > 1 THEN SortLoop(prod, 0, 0) ELSE <<prod, 0>>

(***************************************************************************)
(* Algebra._prepare_signs_and_cayley.                                      *)
(***************************************************************************)
RECURSIVE CounterOf(_, _)
\* Counter(prod): items <<key, count>> in order of first occurrence
CounterOf(prod, n) ==
    IF n = 0 THEN <<>>
    ELSE LET c == CounterOf(prod, n - 1)
             pos == KeyPos(c, prod[n])
         IN IF pos = 0 THEN Append(c, <<prod[n], 1>>)
            ELSE [c EXCEPT ![pos] = <<prod[n], c[pos][2] + 1>>]

\* the index taken one too low: self.signature[k - 1]
SigAtOffByOne(sig, k) == IF k - 1 < 0 THEN sig[Len(sig) + k] ELSE sig[k]

\* self.signature[k] on the numpy array: a negative k counts from the end
SigAt(sig, k) == IF k < 0 THEN sig[Len(sig) + k + 1] ELSE sig[k + 1]

RECURSIVE CollapseSignOddCount(_, _, _, _, _)
\* the loop with value % 2 in place of value // 2
CollapseSignOddCount(count, n, sign, sig, start) ==
    IF n = 0 THEN sign
    ELSE LET s == CollapseSignOddCount(count, n - 1, sign, sig, start) IN
         IF count[n][2] % 2 # 0
         THEN s * SigAt(sig, IntOfHexChar(count[n][1]) - start)
         ELSE s

RECURSIVE CollapseSign(_, _, _, _, _)
\* for key, value in count.items(): if value // 2: sign *= signature[...]
CollapseSign(count, n, sign, sig, start) ==
    IF n = 0 THEN sign
    ELSE LET s == CollapseSign(count, n - 1, sign, sig, start) IN
         IF count[n][2] \div 2 # 0
         THEN s * SigAt(sig, IntOfHexChar(count[n][1]) - start)
         ELSE s

RECURSIVE Repeat(_, _)
\* key * value
Repeat(c, k) == IF k <= 0 THEN <<>> ELSE <<c>> \o Repeat(c, k - 1)

RECURSIVE JoinUnreduced(_, _)
\* the join without count[key] = value % 2
JoinUnreduced(count, n) ==
    IF n = 0 THEN <<>>
    ELSE JoinUnreduced(count, n - 1) \o Repeat(count[n][1], count[n][2])

RECURSIVE JoinReduced(_, _)
\* ''.join(key * value for key, value in count.items()) after count[key] = value % 2
JoinReduced(count, n) ==
    IF n = 0 THEN <<>>
    ELSE JoinReduced(count, n - 1) \o Repeat(count[n][1], count[n][2] % 2)

\* the body of the loop for one pair (eI, eJ): swap count, sign, Cayley string
PairEntry(eI, eJ, sig, start) ==
    LET prod0  == Tail(eI) \o Tail(eJ)
        sorted == IF Len(prod0) # 0 THEN SortProduct(prod0) ELSE <<prod0, 0>>
        swps   == sorted[2]
        sign0  == IF swps % 2 # 0 THEN -1 ELSE 1
        count  == CounterOf(sorted[1], Len(sorted[1]))
        sign   == CollapseSign(count, Len(count), sign0, sig, start)
    IN [swaps  |-> swps,
        sign   |-> sign,
        cayley |-> IF sign # 0
                   THEN (IF sign = -1 THEN <<CH_minus>> ELSE <<>>)
                        \o <<CH_e>> \o JoinReduced(count, Len(count))
                   ELSE <<CH_0>>]

\* all three tables.  The Cayley dict is keyed by the pair of names and filled
\* in the order of product(canon2bin, repeat=2); the numpy arrays start as
\* zeros and are assigned at [canon2bin[eI], canon2bin[eJ]].
PrepareSignsAndCayley(c2b, dim, sig, start) ==
    LET n    == Len(c2b)
        size == Pow2(dim)
        ent  == [a \in 1 .. n, b \in 1 .. n |-> PairEntry(c2b[a][1], c2b[b][1], sig, start)]
        \* the last name written to row / column i, 0 when none is
        posOf == [i \in 0 .. size - 1 |->
                    IF \E a \in 1 .. n : c2b[a][2] = i
                    THEN CHOOSE a \in 1 .. n :
                            c2b[a][2] = i /\ \A b \in 1 .. n : c2b[b][2] = i => b <= a
                    ELSE 0]
    IN [swaps  |-> [i \in 0 .. size - 1, j \in 0 .. size - 1 |->
                      IF posOf[i] # 0 /\ posOf[j] # 0 THEN ent[posOf[i], posOf[j]].swaps ELSE 0],
        signs  |-> [i \in 0 .. size - 1, j \in 0 .. size - 1 |->
                      IF posOf[i] # 0 /\ posOf[j] # 0 THEN ent[posOf[i], posOf[j]].sign ELSE 0],
        cayley |-> [k \in 1 .. n * n |->
                      LET a == ((k - 1) \div n) + 1
                          b == ((k - 1) % n) + 1
                      IN <<<<c2b[a][1], c2b[b][1]>>, ent[a, b].cayley>>]]

(***************************************************************************)
(* Algebra.indices_for_grade (a cached property).                          *)
(***************************************************************************)
\* stable insertion by key = lambda i: bin(i).count('1')
InsertByGrade(sorted, i) ==
    LET greater == {k \in 1 .. Len(sorted) : PopCount(i) < PopCount(sorted[k])}
        at == IF greater = {} THEN Len(sorted) + 1
              ELSE CHOOSE k \in greater : \A j \in greater : k <= j
    IN SubSeq(sorted, 1, at - 1) \o <<i>> \o SubSeq(sorted, at, Len(sorted))

\* range(n) left as it is, without the sort by grade
UnsortedInds(n) == [k \in 1 .. n |-> k - 1]

\* sorted(range(n), key=key)
SortedInds(n) == ForRange(InsertByGrade, <<>>, 0, n - 1)

\* groupby(inds, key=key): the runs of equal key among the first n, as <<key, run>>
GroupBy(inds, n) ==
    LET Body(g, m) ==
            LET k == PopCount(inds[m]) IN
            IF g # <<>> /\ g[Len(g)][1] = k
            THEN [g EXCEPT ![Len(g)] = <<k, Append(g[Len(g)][2], inds[m])>>]
            ELSE Append(g, <<k, <<inds[m]>> >>)
    IN ForRange(Body, <<>>, 1, n)

RECURSIVE DictOf(_, _)
\* {grade: tuple(inds) for grade, inds in groups}
DictOf(groups, n) ==
    IF n = 0 THEN <<>> ELSE DictSet(DictOf(groups, n - 1), groups[n][1], groups[n][2])

\* the value the property computes: len(self) = 2 ** self.d
IndicesForGrade(dim) ==
    LET inds == SortedInds(Pow2(dim))
        groups == GroupBy(inds, Len(inds))
    IN DictOf(groups, Len(groups))

(***************************************************************************)
(* BladeDict.                                                              *)
(***************************************************************************)
\* Python's None and a value that is present
None == <<>>
Some(x) == <<x>>

\* the blade's index stored as its coefficient
FromKeysValuesIndex(bin_blade) == [keys |-> <<bin_blade>>, values |-> <<bin_blade>>]

\* the arguments of MultiVector.fromkeysvalues(algebra, keys=(bin_blade,), values=(1,))
FromKeysValues(bin_blade) == [keys |-> <<bin_blade>>, values |-> <<1>>]

\* algebra.multivector(values=[int(bin_blade == i) for i in indices], grades=(g,)):
\* a multivector over the index set of grade g
GradedBlade(bin_blade, indices) ==
    [keys |-> indices,
     values |-> [k \in 1 .. Len(indices) |-> IF bin_blade = indices[k] THEN 1 ELSE 0]]

\* self.blades[blade] = mv; return self.blades[blade]
Materialized(bl, blade, mv, ifg) ==
    [blades |-> DictSet(bl, blade, mv), raised |-> "", value |-> Some(mv), ifg |-> ifg]

\* the graded branch: g = format(bin_blade, 'b').count('1'), indices = tab[g]
GradedGetItem(bl, blade, bin_blade, tab) ==
    Materialized(bl, blade, GradedBlade(bin_blade, Lookup(tab, PopCount(bin_blade))),
                 Some(tab))

\* a __getitem__ that stores and returns the scalar blade for a name that is
\* no key of canon2bin
BladeGetItemDefault(bl, blade, c2b, gr, ifg, dim) ==
    IF HasKey(bl, blade)
    THEN [blades |-> bl, raised |-> "", value |-> Some(Lookup(bl, blade)), ifg |-> ifg]
    ELSE IF ~HasKey(c2b, blade)
    THEN Materialized(bl, blade, FromKeysValues(0), ifg)
    ELSE IF gr
    THEN GradedGetItem(bl, blade, Lookup(c2b, blade),
                       IF ifg = None THEN IndicesForGrade(dim) ELSE ifg[1])
    ELSE Materialized(bl, blade, FromKeysValues(Lookup(c2b, blade)), ifg)

\* BladeDict.__getitem__(blade) on the dict contents bl; ifg is the cache of
\* indices_for_grade, which a graded materialization reads (and so fills).
\* Yields the new contents, the outcome and the new cache.
BladeGetItem(bl, blade, c2b, gr, ifg, dim) ==
    IF HasKey(bl, blade)
    THEN [blades |-> bl, raised |-> "", value |-> Some(Lookup(bl, blade)), ifg |-> ifg]
    ELSE IF ~HasKey(c2b, blade)
    THEN [blades |-> bl, raised |-> "KeyError", value |-> None, ifg |-> ifg]
    ELSE IF gr
    THEN GradedGetItem(bl, blade, Lookup(c2b, blade),
                       IF ifg = None THEN IndicesForGrade(dim) ELSE ifg[1])
    ELSE Materialized(bl, blade, FromKeysValues(Lookup(c2b, blade)), ifg)

\* for blade in self.algebra.canon2bin: self[blade]   (the first n names)
BladeDictFill(c2b, n, gr, ifg, dim) ==
    LET Body(acc, k) == BladeGetItem(acc.blades, c2b[k][1], c2b, gr, acc.ifg, dim)
    IN ForRange(Body, [blades |-> <<>>, raised |-> "", value |-> None, ifg |-> ifg], 1, n)

\* BladeDict(algebra, lazy).__post_init__
BladeDictPostInit(lazy, c2b, gr, ifg, dim) ==
    IF ~lazy THEN BladeDictFill(c2b, Len(c2b), gr, ifg, dim)
    ELSE [blades |-> <<>>, raised |-> "", value |-> None, ifg |-> ifg]

(***************************************************************************)
(* The state: one Algebra, its BladeDict, and a BladeDict a client makes.  *)
(***************************************************************************)
VARIABLES
    pc,                 \* "new", "ready", or "TypeError" when __post_init__ raised
    p, q, r, d,         \* Algebra.p, q, r, d
    signature,          \* Algebra.signature: None, or Some(the sequence)
    start_index,        \* Algebra.start_index: None, or Some(the offset)
    graded,             \* Algebra.graded
    bin2canon,          \* Algebra.bin2canon
    canon2bin,          \* Algebra.canon2bin, items in iteration order
    swaps, signs,       \* the numpy arrays Algebra.swaps, Algebra.signs
    cayley,             \* Algebra.cayley, items in insertion order
    blades,             \* Algebra.blades: [lazy, blades]
    pss,                \* Algebra.pss
    indices_for_grade,  \* the cache of the property: None until first read
    userdict,           \* None, or Some([lazy, blades]) made by BladeDict(alg, lazy)
    ret,                \* what the last __getitem__ did
    operators,          \* Algebra.gp, .sw, ...: per field its name, codegen and cache
    caches,             \* the contents of each dispatch cache: items <<key, function>>
    builds,             \* probe: items <<<<operator, key>>, number of code generations>>
    calls,              \* probe: items <<<<operator, key>>, number of invocations>>
    lastcall,           \* what the last operator invocation did
    sorter              \* a call of _sort_product: its position and its locals

algvars == <<p, q, r, d, signature, start_index, graded, bin2canon, canon2bin,
             swaps, signs, cayley, blades, pss>>
bladevars == <<indices_for_grade, userdict, ret>>
opvars == <<caches, builds, calls, lastcall>>
vars == <<pc, algvars, bladevars, operators, opvars, sorter>>

(***************************************************************************)
(* The constructor's arguments.                                            *)
(***************************************************************************)
\* values a client may put in an explicit signature; 2 is not a square the
\* algebra supports
SigValues == {1, -1, 0, 2}

\* start_index as given: None, or a digit offset (9 reaches the digits a..f)
StartChoices == {None, Some(0), Some(1), Some(9)}

RECURSIVE SeqsUpTo(_, _)
SeqsUpTo(S, n) ==
    IF n = 0 THEN {<<>>}
    ELSE LET shorter == SeqsUpTo(S, n - 1) IN
         shorter \cup {Append(s, x) : s \in {t \in shorter : Len(t) = n - 1}, x \in S}

\* Algebra(p, q, r, start_index=..., graded=...)
CountArgs(maxd) ==
    {[p |-> a, q |-> b, r |-> c, signature |-> None, start_index |-> st, graded |-> g] :
        a \in 0 .. maxd, b \in 0 .. maxd, c \in 0 .. maxd,
        st \in StartChoices, g \in BOOLEAN}

\* Algebra(signature=[...], start_index=..., graded=...)
SignatureArgs(maxlen) ==
    {[p |-> 0, q |-> 0, r |-> 0, signature |-> Some(s), start_index |-> st, graded |-> g] :
        s \in SeqsUpTo(SigValues, maxlen), st \in StartChoices, g \in BOOLEAN}

Args(maxd, maxlen) ==
    {a \in CountArgs(maxd) : a.p + a.q + a.r <= maxd} \cup SignatureArgs(maxlen)

\* Counter(self.signature)[v]
CountOf(sig, v) == Cardinality({i \in 1 .. Len(sig) : sig[i] = v})

\* [v] * n
Times(v, n) == [i \in 1 .. n |-> v]

NoRet == [dict |-> "", blade |-> <<>>, raised |-> "", value |-> None]

NoCall == [op |-> "", key |-> <<>>, values |-> <<>>, fn |-> None,
           built |-> FALSE, cached |-> FALSE]

\* the fields declared with operation_field(metadata={'codegen': ...})
BinaryOperators == {"gp", "sw", "cp", "acp", "ip", "sp", "lc", "rc", "op", "rp", "proj", "div"}
UnaryOperators == {"inv", "normsq", "outerexp", "outersin", "outercos", "outertan"}
Operators == BinaryOperators \cup UnaryOperators

\* the code generator in the metadata of each field
CodegenOf ==
    [gp |-> "codegen_gp", sw |-> "codegen_sw", cp |-> "codegen_cp", acp |-> "codegen_acp",
     ip |-> "codegen_ip", sp |-> "codegen_sp", lc |-> "codegen_lc", rc |-> "codegen_rc",
     op |-> "codegen_op", rp |-> "codegen_rp", proj |-> "codegen_proj",
     div |-> "codegen_div", inv |-> "codegen_inv", normsq |-> "codegen_normsq",
     outerexp |-> "codegen_outerexp", outersin |-> "codegen_outersin",
     outercos |-> "codegen_outercos", outertan |-> "codegen_outertan"]

\* every field given one and the same dict object
SharedOperatorDicts ==
    [f \in Operators |->
        [name |-> f, codegen |-> CodegenOf[f],
         type |-> IF f \in UnaryOperators THEN "UnaryOperatorDict" ELSE "OperatorDict",
         cache |-> "gp"]]

\* for f in operators: setattr(self, f.name, f.type(name=f.name, codegen=..., algebra=self)):
\* each call makes a new dict object, named here after its field
NewOperatorDicts ==
    [f \in Operators |->
        [name |-> f, codegen |-> CodegenOf[f],
         type |-> IF f \in UnaryOperators THEN "UnaryOperatorDict" ELSE "OperatorDict",
         cache |-> f]]

\* no call of _sort_product is in progress
NoSort == [pc |-> "idle", arg |-> <<>>, prod |-> <<>>, swaps |-> None, prev_swap |-> None,
           i |-> None]

\* The state in which __post_init__ starts: the dataclass __init__ has stored
\* the arguments in the fields, the init=False fields are not set yet.
InitWith(A) ==
    /\ pc = "new"
    /\ \E a \in A :
          /\ p = a.p /\ q = a.q /\ r = a.r
          /\ signature = a.signature
          /\ start_index = a.start_index
          /\ graded = a.graded
    /\ d = 0
    /\ bin2canon = <<>>
    /\ canon2bin = <<>>
    /\ swaps = <<>> /\ signs = <<>> /\ cayley = <<>>
    /\ blades = [lazy |-> FALSE, blades |-> <<>>]
    /\ pss = None
    /\ indices_for_grade = None
    /\ userdict = None
    /\ ret = NoRet
    \* default_factory=dict: each field starts as a plain dict of its own
    /\ operators = [f \in Operators |-> [name |-> f, codegen |-> "", type |-> "dict", cache |-> f]]
    /\ caches = [f \in Operators |-> <<>>]
    /\ builds = <<>>
    /\ calls = <<>>
    /\ lastcall = NoCall

Init == InitWith(Args(MaxDim, MaxSigLen)) /\ sorter = NoSort

(***************************************************************************)
(* Algebra.__post_init__.                                                  *)
(***************************************************************************)
\* the signature with the null vectors last, whatever r is
NullLastSignature(np, nq, nr) == Times(1, np) \o Times(-1, nq) \o Times(0, nr)

\* the signature built from the counts: PGA (r = 1) puts the null vector first
DefaultSignature(np, nq, nr) ==
    IF nr = 1
    THEN Times(0, nr) \o Times(1, np) \o Times(-1, nq)
    ELSE Times(1, np) \o Times(-1, nq) \o Times(0, nr)

\* self.start_index = 0 if self.r == 1 else 1
DefaultStartIndex(nr) == IF nr = 1 THEN 0 ELSE 1

\* the tables and the blades, once the two name maps are there;
\* "Blades are not precomputed for algebras larger than 6D."
WithNames(sig, start, dim, gr, b2c, c2b) ==
    [signature |-> sig, start_index |-> start, d |-> dim,
     bin2canon |-> b2c, canon2bin |-> c2b,
     tables |-> PrepareSignsAndCayley(c2b, dim, sig, start),
     lazy |-> dim > 6,
     bd |-> BladeDictPostInit(dim > 6, c2b, gr, None, dim)]

\* self.canon2bin = ..., then the rest
WithBin2Canon(sig, start, dim, gr, b2c) ==
    WithNames(sig, start, dim, gr, b2c, MakeCanon2Bin(b2c, dim))

\* what __post_init__ computes from the signature, the offset and d, up to
\* self.blades
Prepared(sig, start, dim, gr) ==
    WithBin2Canon(sig, start, dim, gr, MakeBin2Canon(dim, start))

\* self.pss = self.blades[self.bin2canon[2 ** self.d - 1]]
TopBlade(alg, gr) ==
    BladeGetItem(alg.bd.blades, alg.bin2canon[Pow2(alg.d) - 1], alg.canon2bin, gr,
                 alg.bd.ifg, alg.d)

\* the fields after self.pss is looked up and the OperatorDicts are made
Store(alg, top) ==
    /\ pc' = "ready"
    /\ signature' = Some(alg.signature)
    /\ start_index' = Some(alg.start_index)
    /\ d' = alg.d
    /\ bin2canon' = alg.bin2canon
    /\ canon2bin' = alg.canon2bin
    /\ swaps' = alg.tables.swaps
    /\ signs' = alg.tables.signs
    /\ cayley' = alg.tables.cayley
    /\ blades' = [lazy |-> alg.lazy, blades |-> top.blades]
    /\ pss' = top.value
    /\ indices_for_grade' = top.ifg
    \* Prepare OperatorDict's
    /\ operators' = NewOperatorDicts
    /\ UNCHANGED <<graded, userdict, ret, opvars, sorter>>

StorePrepared(alg) == Store(alg, TopBlade(alg, graded))

\* __post_init__ with the counts np, nq, nr taken from the signature or the fields
PostInitWith(given, np, nq, nr) ==
    /\ p' = np /\ q' = nq /\ r' = nr
    /\ IF given /\ np + nq + nr # Len(signature[1])
       THEN \* raise TypeError('Unsupported signature.')
            /\ pc' = "TypeError"
            /\ UNCHANGED <<d, signature, start_index, graded, bin2canon, canon2bin,
                           swaps, signs, cayley, blades, pss, indices_for_grade,
                           userdict, ret, operators, opvars, sorter>>
       ELSE StorePrepared(Prepared(IF given THEN signature[1]
                                   ELSE DefaultSignature(np, nq, nr),
                                   IF start_index = None THEN DefaultStartIndex(nr)
                                   ELSE start_index[1],
                                   np + nq + nr, graded))

PostInit ==
    /\ pc = "new"
    /\ IF signature # None
       THEN PostInitWith(TRUE, CountOf(signature[1], 1), CountOf(signature[1], -1),
                         CountOf(signature[1], 0))
       ELSE PostInitWith(FALSE, p, q, r)

\* reading alg.indices_for_grade: computed on the first read, then cached
GetIndicesForGrade ==
    /\ pc = "ready"
    /\ indices_for_grade' =
          IF indices_for_grade = None THEN Some(IndicesForGrade(d)) ELSE indices_for_grade
    /\ UNCHANGED <<pc, algvars, userdict, ret, operators, opvars, sorter>>

Next == PostInit \/ GetIndicesForGrade

Spec == Init /\ [][Next]_vars

\* the constructions whose tables are examined: the tables do not depend on
\* graded
TableArgs == {a \in Args(MaxDim, MaxSigLen) : ~a.graded}

InitTables == InitWith(TableArgs) /\ sorter = NoSort

NextTables == PostInit

SpecTables == InitTables /\ [][NextTables]_vars

(***************************************************************************)
(* Clients of the BladeDicts.                                              *)
(***************************************************************************)
\* names that are no blade of the algebras below: 'e21', 'e9' and ''
UnknownNames == {<<CH_e, CH_0 + 2, CH_0 + 1>>, <<CH_e, CH_0 + 9>>, <<>>}

\* the blades a client asks for: the scalar, the generators and the pseudoscalar
ClientBlades == {i \in 0 .. Pow2(d) - 1 : PopCount(i) <= 1 \/ i = Pow2(d) - 1}

\* the names a client asks for
LookupNames == {bin2canon[i] : i \in ClientBlades} \cup UnknownNames

\* the client's dict after its __post_init__
MadeBladeDict(lazy, made) ==
    /\ userdict' = Some([lazy |-> lazy, blades |-> made.blades])
    /\ indices_for_grade' = made.ifg

\* BladeDict(alg, lazy=...): a second dict over the same algebra
NewBladeDict ==
    /\ pc = "ready"
    /\ userdict = None
    /\ \E lazy \in BOOLEAN :
          MadeBladeDict(lazy, BladeDictPostInit(lazy, canon2bin, graded, indices_for_grade, d))
    /\ UNCHANGED <<pc, algvars, ret, operators, opvars, sorter>>

\* the dict named which, the cache and ret after a __getitem__
Returned(which, blade, got) ==
    /\ IF which = "alg"
       THEN blades' = [blades EXCEPT !.blades = got.blades] /\ UNCHANGED userdict
       ELSE userdict' = Some([userdict[1] EXCEPT !.blades = got.blades]) /\ UNCHANGED blades
    /\ indices_for_grade' = got.ifg
    /\ ret' = [dict |-> which, blade |-> blade, raised |-> got.raised, value |-> got.value]

\* alg.blades[blade]
GetItemAlg(blade) ==
    /\ pc = "ready"
    /\ Returned("alg", blade,
                BladeGetItem(blades.blades, blade, canon2bin, graded, indices_for_grade, d))
    /\ UNCHANGED <<pc, p, q, r, d, signature, start_index, graded, bin2canon, canon2bin,
                   swaps, signs, cayley, pss, operators, opvars, sorter>>

\* blade_dict[blade] on the client's dict
GetItemUser(blade) ==
    /\ pc = "ready"
    /\ userdict # None
    /\ Returned("user", blade,
                BladeGetItem(userdict[1].blades, blade, canon2bin, graded,
                             indices_for_grade, d))
    /\ UNCHANGED <<pc, p, q, r, d, signature, start_index, graded, bin2canon, canon2bin,
                   swaps, signs, cayley, pss, operators, opvars, sorter>>

GetItem == pc = "ready" /\ \E blade \in LookupNames : GetItemAlg(blade) \/ GetItemUser(blade)

\* Algebra(p, r=r, graded=...) up to MaxBladeDim dimensions
BladeArgs ==
    {a \in CountArgs(MaxBladeDim) :
        a.p + a.r <= MaxBladeDim /\ a.q = 0 /\ a.r <= 1 /\ a.start_index = None}

InitBlades == InitWith(BladeArgs) /\ sorter = NoSort

NextBlades == PostInit \/ NewBladeDict \/ GetItem

SpecBlades == InitBlades /\ [][NextBlades]_vars

(***************************************************************************)
(* Clients of the operators.  The dispatch of an OperatorDict is the one   *)
(* the design describes: the key is the tuple of the operands' keys; on a  *)
(* miss the code generator builds a function, which is stored under the    *)
(* key and then called; on a hit the stored function is called.            *)
(***************************************************************************)
\* d[k] += 1 on a dict of counters
Inc(items, k) == DictSet(items, k, IF HasKey(items, k) THEN Lookup(items, k) + 1 ELSE 1)

\* d.get(k, 0)
CountAt(items, k) == IF HasKey(items, k) THEN Lookup(items, k) ELSE 0

\* the sum of the counters
Total(items) ==
    LET Body(acc, k) == acc + items[k][2] IN ForRange(Body, 0, 1, Len(items))

\* c * x on a multivector
Scaled(c, x) == [keys |-> x.keys, values |-> [k \in 1 .. Len(x.values) |-> c * x.values[k]]]

\* the coefficients a client scales a blade by
Coefficients == {1, 2}

\* the operands a client passes: multiples of the scalar blade and of alg.pss
Operands == {Scaled(c, b) : c \in Coefficients, b \in {Lookup(blades.blades, <<CH_e>>), pss[1]}}

\* the argument lists: one operand for a unary operator, an operand and the
\* pseudoscalar for a binary one
ArgLists(op) ==
    IF op \in UnaryOperators THEN {<<x>> : x \in Operands}
    ELSE {<<x, pss[1]>> : x \in Operands}

\* the structural key: the keys of each operand, not their values
KeysOf(operands) == [k \in 1 .. Len(operands) |-> operands[k].keys]

\* alg.<op>(*operands)
InvokeWith(op, operands) ==
    LET key == KeysOf(operands)
        cid == operators[op].cache
        hit == HasKey(caches[cid], key)
        fn == IF hit THEN Lookup(caches[cid], key)
              ELSE [codegen |-> operators[op].codegen, key |-> key,
                    build |-> CountAt(builds, <<op, key>>) + 1]
        stored == IF hit THEN caches[cid] ELSE DictSet(caches[cid], key, fn)
    IN /\ caches' = [caches EXCEPT ![cid] = stored]
       /\ builds' = IF hit THEN builds ELSE Inc(builds, <<op, key>>)
       /\ calls' = Inc(calls, <<op, key>>)
       /\ lastcall' = [op |-> op, key |-> key,
                       values |-> [k \in 1 .. Len(operands) |-> operands[k].values],
                       fn |-> Some(Lookup(stored, key)),
                       built |-> ~hit,
                       cached |-> HasKey(stored, key)]

Invoke ==
    /\ pc = "ready"
    /\ Total(calls) < MaxCalls
    /\ \E op \in Operators : \E operands \in ArgLists(op) : InvokeWith(op, operands)
    /\ UNCHANGED <<pc, algvars, bladevars, operators, sorter>>

\* Algebra(p) up to MaxOpsDim dimensions
OpsArgs ==
    {a \in CountArgs(MaxOpsDim) :
        a.q = 0 /\ a.r = 0 /\ a.start_index = None /\ ~a.graded}

InitOps == InitWith(OpsArgs) /\ sorter = NoSort

NextOps == PostInit \/ Invoke

SpecOps == InitOps /\ [][NextOps]_vars

(***************************************************************************)
(* A call of _sort_product, statement by statement.  sorter.i is the       *)
(* position of the for loop's range iterator: the next i it will yield.    *)
(***************************************************************************)
\* the digits of the lists handed to _sort_product: '1', '2', '3'
SortDigits == {CH_0 + 1, CH_0 + 2, CH_0 + 3}

\* the lists it is called with
SortArgs == SeqsUpTo(SortDigits, MaxProdLen)

\* if prod[i] > prod[i + 1]
OutOfOrder(a, b) == a > b

\* prev_swap left as it is
KeepPrevSwap(prev_swap, swaps_now) == prev_swap

\* else: prev_swap = swaps
NextPrevSwap(prev_swap, swaps_now) == swaps_now

\* swaps = 0; if len(prod) > 1: prev_swap = 0; while True: for ...
\* (a local that is bound holds Some(its value))
SortEnter ==
    /\ sorter.pc = "call"
    /\ sorter' = IF Len(sorter.prod) > 1
                 THEN [sorter EXCEPT !.pc = "for", !.swaps = Some(0),
                                     !.prev_swap = Some(0), !.i = Some(0)]
                 ELSE [sorter EXCEPT !.pc = "done", !.swaps = Some(0)]
    /\ UNCHANGED <<pc, algvars, bladevars, operators, opvars>>

\* one iteration of for i in range(len(prod) - 1)
ForStep ==
    /\ sorter.pc = "for"
    /\ sorter.i[1] < Len(sorter.prod) - 1
    /\ sorter' = IF OutOfOrder(sorter.prod[sorter.i[1] + 1], sorter.prod[sorter.i[1] + 2])
                 THEN [sorter EXCEPT
                          !.swaps = Some(@[1] + 1),
                          !.prod = [@ EXCEPT ![sorter.i[1] + 1] = sorter.prod[sorter.i[1] + 2],
                                             ![sorter.i[1] + 2] = sorter.prod[sorter.i[1] + 1]],
                          !.i = Some(@[1] + 1)]
                 ELSE [sorter EXCEPT !.i = Some(@[1] + 1)]
    /\ UNCHANGED <<pc, algvars, bladevars, operators, opvars>>

\* the for loop is exhausted: if prev_swap == swaps: break, else: prev_swap = swaps
\* and the next pass; after the break, return swaps
WhileTest ==
    /\ sorter.pc = "for"
    /\ sorter.i[1] >= Len(sorter.prod) - 1
    /\ sorter' = IF sorter.prev_swap = sorter.swaps
                 THEN [sorter EXCEPT !.pc = "done"]
                 ELSE [sorter EXCEPT
                          !.prev_swap = Some(NextPrevSwap(sorter.prev_swap[1], sorter.swaps[1])),
                          !.i = Some(0)]
    /\ UNCHANGED <<pc, algvars, bladevars, operators, opvars>>

\* the module is imported, no Algebra is constructed
SortHost ==
    {a \in CountArgs(0) : a.start_index = None /\ ~a.graded}

\* _sort_product(prod) has just been called
InitSort ==
    /\ InitWith(SortHost)
    /\ \E w \in SortArgs :
          sorter = [pc |-> "call", arg |-> w, prod |-> w, swaps |-> None,
                    prev_swap |-> None, i |-> None]

NextSort == SortEnter \/ ForStep \/ WhileTest

\* the interpreter keeps executing the call
SpecSort == InitSort /\ [][NextSort]_vars /\ WF_vars(NextSort)

(***************************************************************************)
(* Vocabulary of the properties.                                           *)
(***************************************************************************)
Ready == pc = "ready"
Sig == signature[1]
Start == start_index[1]
Size == Pow2(d)
Gens == 0 .. d - 1

\* the strings 'e', '-e' and '0'
ScalarName == <<CH_e>>
MinusScalarName == <<CH_minus, CH_e>>
ZeroEntry == <<CH_0>>

\* the canonical name of the basis vector of generator i
GenName(i) == bin2canon[Pow2(i)]

\* cayley[eI, eJ]
CayleyAt(eI, eJ) == Lookup(cayley, <<eI, eJ>>)

\* the sign an entry of the Cayley table spells, and the name it spells
EntrySign(c) == IF c = ZeroEntry THEN 0 ELSE IF Head(c) = CH_minus THEN -1 ELSE 1
EntryBlade(c) == IF Head(c) = CH_minus THEN Tail(c) ELSE c

\* the canonical names, as a set
CanonNames == {bin2canon[i] : i \in 0 .. Size - 1}

\* the generators of the blade with index i
GensOf(i) == {g \in Gens : BitSet(i, g)}

(***************************************************************************)
(* C1.  For every generator i, the Cayley entry of (e_i, e_i) is '0' when  *)
(* Signature[i] = 0, 'e' when it is +1 and '-e' when it is -1, and the     *)
(* sign table entry of (e_i, e_i) is Signature[i].                         *)
(***************************************************************************)
C1_GeneratorSquares ==
    Ready =>
        \A i \in Gens :
            LET c == CayleyAt(GenName(i), GenName(i)) IN
            /\ Sig[i + 1] = 0 => c = ZeroEntry
            /\ Sig[i + 1] = 1 => c = ScalarName
            /\ Sig[i + 1] = -1 => c = MinusScalarName
            /\ signs[Pow2(i), Pow2(i)] = Sig[i + 1]

\* an algebra with a positive, a negative and a null generator
C1_Witness ==
    /\ Ready
    /\ {Sig[i + 1] : i \in Gens} = {1, -1, 0}
    /\ \A i \in Gens : signs[Pow2(i), Pow2(i)] = Sig[i + 1]

(***************************************************************************)
(* C2.  For distinct generators i and j, whatever their squares, the two   *)
(* basis vectors anticommute: signs[e_i, e_j] = -signs[e_j, e_i], neither  *)
(* is zero, and the two Cayley entries name the same grade-2 blade with    *)
(* opposite signs.                                                         *)
(***************************************************************************)
C2_Anticommute ==
    Ready =>
        \A i, j \in Gens :
            i # j =>
                LET cij == CayleyAt(GenName(i), GenName(j))
                    cji == CayleyAt(GenName(j), GenName(i))
                IN /\ signs[Pow2(i), Pow2(j)] = -signs[Pow2(j), Pow2(i)]
                   /\ signs[Pow2(i), Pow2(j)] # 0
                   /\ signs[Pow2(j), Pow2(i)] # 0
                   /\ EntryBlade(cij) = bin2canon[Pow2(i) + Pow2(j)]
                   /\ EntryBlade(cji) = bin2canon[Pow2(i) + Pow2(j)]
                   /\ EntrySign(cij) = -EntrySign(cji)
                   /\ EntrySign(cij) = signs[Pow2(i), Pow2(j)]

\* two distinct generators, one of them null, whose products differ in sign
C2_Witness ==
    /\ Ready
    /\ \E i, j \in Gens :
          /\ i < j
          /\ Sig[i + 1] = 0
          /\ signs[Pow2(i), Pow2(j)] = 1
          /\ signs[Pow2(j), Pow2(i)] = -1

(***************************************************************************)
(* C3.  Every sign table entry is -1, 0 or 1; the Cayley table has one     *)
(* entry for each ordered pair of canonical names, and each entry is '0'   *)
(* or an optional '-' followed by a value of bin2canon; it is '0' exactly  *)
(* when the sign table entry of the pair is 0.                             *)
(***************************************************************************)
C3_TableEntries ==
    Ready =>
        /\ \A i, j \in 0 .. Size - 1 : signs[i, j] \in {-1, 0, 1}
        /\ Len(cayley) = Size * Size
        /\ {cayley[k][1] : k \in 1 .. Len(cayley)} = CanonNames \X CanonNames
        /\ \A k \in 1 .. Len(cayley) :
              LET eI == cayley[k][1][1]
                  eJ == cayley[k][1][2]
                  c  == cayley[k][2]
              IN /\ eI \in CanonNames /\ eJ \in CanonNames
                 /\ c = ZeroEntry \/ EntryBlade(c) \in CanonNames
                 /\ (c = ZeroEntry) <=>
                        (signs[Lookup(canon2bin, eI), Lookup(canon2bin, eJ)] = 0)

\* a table holding a zero entry, a negative entry and a positive entry
C3_Witness ==
    /\ Ready
    /\ d >= 2
    /\ \E k \in 1 .. Len(cayley) : cayley[k][2] = ZeroEntry
    /\ \E k \in 1 .. Len(cayley) : Head(cayley[k][2]) = CH_minus
    /\ \E k \in 1 .. Len(cayley) : Len(cayley[k][2]) > 2 /\ Head(cayley[k][2]) = CH_e

(***************************************************************************)
(* C4.  bin2canon and canon2bin are mutually inverse bijections between    *)
(* [0, 2^d) and the canonical names: bin2canon is injective, canon2bin has *)
(* exactly 2^d keys, and canon2bin[bin2canon[index]] = index.              *)
(***************************************************************************)
C4_Bijection ==
    Ready =>
        /\ DOMAIN bin2canon = 0 .. Size - 1
        /\ \A i, j \in 0 .. Size - 1 : bin2canon[i] = bin2canon[j] => i = j
        /\ Len(canon2bin) = Size
        /\ \A a, b \in 1 .. Len(canon2bin) : canon2bin[a][1] = canon2bin[b][1] => a = b
        /\ \A i \in 0 .. Size - 1 :
              /\ HasKey(canon2bin, bin2canon[i])
              /\ Lookup(canon2bin, bin2canon[i]) = i

\* a three-dimensional algebra whose digits run from '9' into the letters
C4_Witness ==
    /\ Ready
    /\ d = 3
    /\ Start = 9
    /\ Lookup(canon2bin, bin2canon[Size - 1]) = Size - 1

(***************************************************************************)
(* C5.  indices_for_grade partitions [0, 2^d): its keys are the grades     *)
(* 0..d, every index is in exactly one bucket, the bucket of its number of *)
(* set bits, and the bucket sizes sum to 2^d.                              *)
(***************************************************************************)
RECURSIVE SumLens(_, _)
SumLens(items, n) == IF n = 0 THEN 0 ELSE SumLens(items, n - 1) + Len(items[n][2])

C5_GradePartition ==
    (Ready /\ indices_for_grade # None) =>
        LET tab == indices_for_grade[1] IN
        /\ Len(tab) = d + 1
        /\ {tab[k][1] : k \in 1 .. Len(tab)} = 0 .. d
        /\ \A i \in 0 .. Size - 1 :
              LET places == {<<k, m>> \in (1 .. Len(tab)) \X (1 .. Size) :
                                m <= Len(tab[k][2]) /\ tab[k][2][m] = i}
              IN /\ Cardinality(places) = 1
                 /\ \A pl \in places : tab[pl[1]][1] = Cardinality(GensOf(i))
        /\ SumLens(tab, Len(tab)) = Size

\* the property was read on an ungraded algebra of dimension 3 or more
C5_Witness ==
    /\ Ready
    /\ ~graded
    /\ d >= 3
    /\ indices_for_grade # None
    /\ Len(Lookup(indices_for_grade[1], 1)) = d

(***************************************************************************)
(* C6.  Algebra(p=3, q=0, r=1) without signature or start_index: d = 4,    *)
(* start_index is 0, the signature is [0, 1, 1, 1], so 'e0' is the null    *)
(* generator, the pseudoscalar is the blade 'e0123' of grade 4,            *)
(* cayley['e0', 'e0'] is '0', and the Cayley entry of every ordered pair   *)
(* of blades that both contain generator 0 is '0'.                         *)
(***************************************************************************)
\* the names 'e0' and 'e0123'
Name_e0 == <<CH_e, CH_0>>
Name_e0123 == <<CH_e, CH_0, CH_0 + 1, CH_0 + 2, CH_0 + 3>>

\* the state holds the algebra of the scenario
PGAState ==
    /\ d = 4
    /\ p = 3 /\ q = 0 /\ r = 1
    /\ start_index = Some(0)
    /\ signature = Some(<<0, 1, 1, 1>>)
    /\ bin2canon[1] = Name_e0
    /\ Sig[IntOfHexChar(Name_e0[2]) - Start + 1] = 0
    /\ bin2canon[Size - 1] = Name_e0123
    /\ Cardinality(GensOf(Size - 1)) = 4
    /\ pss # None
    /\ \E k \in 1 .. Len(pss[1].keys) :
          /\ pss[1].keys[k] = Size - 1
          /\ pss[1].values[k] = 1
          /\ \A m \in 1 .. Len(pss[1].keys) : m # k => pss[1].values[m] = 0
    /\ pss[1] = Lookup(blades.blades, Name_e0123)
    /\ CayleyAt(Name_e0, Name_e0) = ZeroEntry
    /\ \A i, j \in 0 .. Size - 1 :
          (BitSet(i, 0) /\ BitSet(j, 0)) =>
              /\ CayleyAt(bin2canon[i], bin2canon[j]) = ZeroEntry
              /\ signs[i, j] = 0

C6_PGAScenario ==
    [][(/\ pc = "new"
        /\ p = 3 /\ q = 0 /\ r = 1
        /\ signature = None
        /\ start_index = None
        /\ pc' # "new") => (pc' = "ready" /\ PGAState')]_vars

\* the scenario's algebra has been built
C6_Witness ==
    /\ Ready
    /\ PGAState
    /\ CayleyAt(Name_e0123, Name_e0) = ZeroEntry
    /\ CayleyAt(bin2canon[Size - 2], bin2canon[Size - 2]) # ZeroEntry

(***************************************************************************)
(* C7.  On one algebra, a lazy and an eager BladeDict return the same      *)
(* value for every canonical name, after any lookups: the multivector with *)
(* a single non-zero coefficient, 1, at the blade's index (over the index  *)
(* set of the blade's grade when graded); a stored value is never replaced *)
(* and a repeated lookup returns it.                                       *)
(***************************************************************************)
\* what bl[name] returns in this state
Got(bl, name) == BladeGetItem(bl, name, canon2bin, graded, indices_for_grade, d).value

\* the indices of the grade of bin, ascending
GradeIndices(bin) == {i \in 0 .. Size - 1 : PopCount(i) = PopCount(bin)}

\* mv is the unit blade of the canonical name
IsUnitBlade(mv, name) ==
    /\ Len(mv.keys) = Len(mv.values)
    /\ \E k \in 1 .. Len(mv.keys) :
          /\ mv.keys[k] = Lookup(canon2bin, name)
          /\ mv.values[k] = 1
          /\ \A m \in 1 .. Len(mv.keys) : m # k => mv.values[m] = 0
    /\ IF graded
       THEN /\ {mv.keys[k] : k \in 1 .. Len(mv.keys)} = GradeIndices(Lookup(canon2bin, name))
            /\ \A k \in 1 .. Len(mv.keys) - 1 : mv.keys[k] < mv.keys[k + 1]
       ELSE mv.keys = <<Lookup(canon2bin, name)>>

\* the dict the last lookup was made on
DictOfRet == IF ret.dict = "alg" THEN blades.blades ELSE userdict[1].blades

\* lookups agree across the two dicts and yield unit blades
LookupsAgree ==
    Ready =>
        /\ \A name \in CanonNames :
              /\ Got(blades.blades, name) # None
              /\ IsUnitBlade(Got(blades.blades, name)[1], name)
              /\ userdict # None => Got(userdict[1].blades, name) = Got(blades.blades, name)
        /\ \A k \in 1 .. Len(blades.blades) : blades.blades[k][1] \in CanonNames
        /\ userdict # None =>
              \A k \in 1 .. Len(userdict[1].blades) : userdict[1].blades[k][1] \in CanonNames
        /\ (ret.dict # "" /\ ret.raised = "") =>
              /\ ret.value = Some(Lookup(DictOfRet, ret.blade))
              /\ IsUnitBlade(ret.value[1], ret.blade)

\* every entry of bl is an entry of its successor
Kept(bl, next) ==
    \A k \in 1 .. Len(bl) : HasKey(next, bl[k][1]) /\ Lookup(next, bl[k][1]) = bl[k][2]

\* a step keeps every stored value
Memoized ==
    /\ Kept(blades.blades, blades'.blades)
    /\ userdict # None =>
          /\ userdict' # None
          /\ userdict'[1].lazy = userdict[1].lazy
          /\ Kept(userdict[1].blades, userdict'[1].blades)

C7_LazyEagerSame == [](LookupsAgree) /\ [][Memoized]_vars

\* a graded plane: the algebra's dict is eager, the client's is lazy and holds
\* some blades but not all, and the last lookup, of a vector, was on the lazy one
C7_Witness ==
    /\ Ready
    /\ graded
    /\ d = 2
    /\ ~blades.lazy
    /\ Len(blades.blades) = Size
    /\ userdict # None
    /\ userdict[1].lazy
    /\ Len(userdict[1].blades) \in 1 .. Size - 1
    /\ ret.dict = "user"
    /\ ret.raised = ""
    /\ ret.value # None
    /\ ret.value[1].keys = <<1, 2>>
    /\ ret.value = Got(blades.blades, ret.blade)

(***************************************************************************)
(* C8.  blade_dict[name] for a name that is no key of canon2bin raises     *)
(* KeyError, on a lazy and on an eager dict; nothing is stored and no      *)
(* value is returned.                                                      *)
(***************************************************************************)
C8_UnknownBlade ==
    [][\A blade \in IF Ready THEN LookupNames ELSE {} :
          ((GetItemAlg(blade) \/ GetItemUser(blade)) /\ ~HasKey(canon2bin, blade)) =>
              /\ ret'.blade = blade
              /\ ret'.raised = "KeyError"
              /\ ret'.value = None
              /\ blades' = blades
              /\ userdict' = userdict]_vars

\* 'e21' was looked up on a lazy dict that holds some blades
C8_Witness ==
    /\ Ready
    /\ d = 2
    /\ userdict # None
    /\ userdict[1].lazy
    /\ Len(userdict[1].blades) > 0
    /\ ret.dict = "user"
    /\ ret.blade = <<CH_e, CH_0 + 2, CH_0 + 1>>
    /\ ret.raised = "KeyError"
    /\ ret.value = None
    /\ ~HasKey(userdict[1].blades, ret.blade)

(***************************************************************************)
(* C9.  Canonical names are ordered by length, then lexicographically;     *)
(* canon2bin iterates in this order.                                       *)
(***************************************************************************)
\* the a-th canonical name in iteration order
NameAt(a) == canon2bin[a][1]

\* names in strictly increasing (length, digits) order
NamesOrdered ==
    \A a, b \in 1 .. Len(canon2bin) :
        a < b =>
            \/ Len(NameAt(a)) < Len(NameAt(b))
            \/ /\ Len(NameAt(a)) = Len(NameAt(b))
               /\ \E k \in 2 .. Len(NameAt(a)) :
                     /\ \A m \in 1 .. k - 1 : NameAt(a)[m] = NameAt(b)[m]
                     /\ IntOfHexChar(NameAt(a)[k]) < IntOfHexChar(NameAt(b)[k])

\* the Cayley dict was filled row by row, columns within a row, in that order
CayleyInNameOrder ==
    /\ Len(cayley) = Len(canon2bin) * Len(canon2bin)
    /\ \A a, b \in 1 .. Len(canon2bin) :
          cayley[(a - 1) * Len(canon2bin) + b][1] = <<NameAt(a), NameAt(b)>>

\* pairs of positions of a word that are out of order
Inversions(w) ==
    Cardinality({<<x, y>> \in (1 .. Len(w)) \X (1 .. Len(w)) : x < y /\ w[x] > w[y]})

\* row i, column j of the two arrays hold the pair of the names canon2bin
\* maps to i and j
ArraysByBinaryIndex ==
    \A a, b \in 1 .. Len(canon2bin) :
        LET i == canon2bin[a][2]
            j == canon2bin[b][2]
            k == (a - 1) * Len(canon2bin) + b
        IN /\ cayley[k][1] = <<NameAt(a), NameAt(b)>>
           /\ signs[i, j] = EntrySign(cayley[k][2])
           /\ swaps[i, j] = Inversions(Tail(NameAt(a)) \o Tail(NameAt(b)))

\* row a - 1 of the arrays is the a-th name of the canonical order
ArraysInNameOrder == \A a \in 1 .. Len(canon2bin) : canon2bin[a][2] = a - 1

\* C9 as claimed: the canonical order is the iteration order of canon2bin and
\* the row / column order of the Cayley table, the sign table and the swap table
C9_Original ==
    Ready => (NamesOrdered /\ CayleyInNameOrder /\ ArraysByBinaryIndex /\ ArraysInNameOrder)

\* C9 as amended: the canonical order is the iteration order of canon2bin and
\* the row / column order of the Cayley table; the sign table and the swap table
\* are indexed by binary blade index, the pair (eI, eJ) at
\* [canon2bin[eI], canon2bin[eJ]], which is the canonical order only for d <= 2
C9_TableOrder ==
    Ready =>
        /\ NamesOrdered
        /\ CayleyInNameOrder
        /\ ArraysByBinaryIndex
        /\ ArraysInNameOrder <=> (d <= 2)

\* three dimensions, digits '9', 'a', 'b': 'eb' (index 4) precedes 'e9a' (index 3)
C9_Witness ==
    /\ Ready
    /\ d = 3
    /\ Start = 9
    /\ canon2bin[4] = <<bin2canon[4], 4>>
    /\ canon2bin[5] = <<bin2canon[3], 3>>
    /\ cayley[4][1] = <<ScalarName, bin2canon[4]>>

(***************************************************************************)
(* C10.  Every operator of an Algebra has a dispatch cache of its own.     *)
(* Over N >= 2 calls of one operator with operands of the same structural  *)
(* key, whatever their coefficients, the code generator runs once, on the  *)
(* first call; the function is in the cache under the key when it is       *)
(* called, later calls use that same function, and an entry is never       *)
(* rebuilt or dropped.                                                     *)
(***************************************************************************)
\* the cache of the operator
CacheOf(op) == caches[operators[op].cache]

OneBuildPerKey ==
    Ready =>
        /\ \A f, g \in Operators : f # g => operators[f].cache # operators[g].cache
        /\ \A k \in 1 .. Len(calls) :
              /\ CountAt(builds, calls[k][1]) = 1
              /\ HasKey(CacheOf(calls[k][1][1]), calls[k][1][2])
              /\ Lookup(CacheOf(calls[k][1][1]), calls[k][1][2]) =
                     [codegen |-> CodegenOf[calls[k][1][1]], key |-> calls[k][1][2],
                      build |-> 1]
        /\ \A k \in 1 .. Len(builds) : CountAt(calls, builds[k][1]) >= 1
        /\ \A f \in Operators : \A k \in 1 .. Len(caches[f]) :
              CountAt(calls, <<f, caches[f][k][1]>>) >= 1
        /\ lastcall.op # "" =>
              /\ lastcall.cached
              /\ lastcall.fn = Some(Lookup(CacheOf(lastcall.op), lastcall.key))
              /\ lastcall.built <=> (CountAt(calls, <<lastcall.op, lastcall.key>>) = 1)

\* a step leaves every cache entry and every build count as it is
EntriesStay ==
    /\ \A f \in Operators : Kept(caches[f], caches'[f])
    /\ Kept(builds, builds')

C10_BuildOnce == [](OneBuildPerKey) /\ [][EntriesStay]_vars

\* an operator was called twice with one key; the second call, with
\* coefficient 2, built nothing
C10_Witness ==
    /\ Ready
    /\ lastcall.op = "gp"
    /\ CountAt(calls, <<lastcall.op, lastcall.key>>) = 2
    /\ CountAt(builds, <<lastcall.op, lastcall.key>>) = 1
    /\ ~lastcall.built
    /\ lastcall.values[1] = <<2>>
    /\ lastcall.fn # None
    /\ lastcall.fn[1].build = 1
    /\ Len(CacheOf("gp")) = 1
    /\ \A f \in Operators \ {"gp"} : caches[f] = <<>>

(***************************************************************************)
(* C11.  For blades with generator sets I and J the tables hold the        *)
(* reference product: swaps[I, J] is the number n of pairs (a in I,        *)
(* b in J) with a > b, signs[I, J] is (-1)^n times the product of          *)
(* Signature[g] over g in both I and J, and when that is not 0 the Cayley  *)
(* entry names, with that sign, the blade of index I XOR J, whose digits   *)
(* ascend.                                                                 *)
(***************************************************************************)
RECURSIVE XorIndex(_, _)
\* i XOR j
XorIndex(i, j) ==
    IF i = 0 /\ j = 0 THEN 0
    ELSE ((i + j) % 2) + 2 * XorIndex(i \div 2, j \div 2)

\* the pairs (a in I, b in J) with a > b
CrossInversions(i, j) ==
    Cardinality({ab \in GensOf(i) \X GensOf(j) : ab[1] > ab[2]})

\* the product of Signature[g] over the generators in both blades
SharedSquares(i, j) ==
    IF \E g \in GensOf(i) \cap GensOf(j) : Sig[g + 1] = 0 THEN 0
    ELSE IF Cardinality({g \in GensOf(i) \cap GensOf(j) : Sig[g + 1] = -1}) % 2 = 1 THEN -1
    ELSE 1

\* the sign of the reference product
ReferenceSign(i, j) ==
    (IF CrossInversions(i, j) % 2 = 1 THEN -1 ELSE 1) * SharedSquares(i, j)

\* the digits of a name ascend strictly
DigitsAscend(name) ==
    \A k \in 2 .. Len(name) - 1 : IntOfHexChar(name[k]) < IntOfHexChar(name[k + 1])

\* the tables at the blades of indices i and j agree with the reference, where
\* item is the item of the Cayley dict at the pair's place in product order
PairAsReference(i, j, item, sign) ==
    /\ item[1] = <<bin2canon[i], bin2canon[j]>>
    /\ swaps[i, j] = CrossInversions(i, j)
    /\ signs[i, j] = sign
    /\ sign # 0 =>
          /\ EntrySign(item[2]) = sign
          /\ EntryBlade(item[2]) = bin2canon[XorIndex(i, j)]
          /\ GensOf(XorIndex(i, j)) = (GensOf(i) \cup GensOf(j)) \ (GensOf(i) \cap GensOf(j))
          /\ DigitsAscend(EntryBlade(item[2]))
    /\ sign = 0 => item[2] = ZeroEntry

C11_ReferenceProduct ==
    Ready =>
        /\ Len(cayley) = Size * Size
        /\ \A a, b \in 1 .. Len(canon2bin) :
              PairAsReference(canon2bin[a][2], canon2bin[b][2],
                              cayley[(a - 1) * Len(canon2bin) + b],
                              ReferenceSign(canon2bin[a][2], canon2bin[b][2]))

\* signature [0, 1, -1] over generators 0, 1, 2: {1,2}{1} takes one swap and
\* the square of generator 1, {1,2}{2} no swap and the square of generator 2,
\* {1}{1,2} neither sign, and {0,1}{0,2} is null
C11_Witness ==
    /\ Ready
    /\ d = 3
    /\ Sig = <<0, 1, -1>>
    /\ swaps[6, 2] = 1
    /\ signs[6, 2] = -1
    /\ CayleyAt(bin2canon[6], bin2canon[2]) = <<CH_minus>> \o bin2canon[4]
    /\ swaps[6, 4] = 0
    /\ signs[6, 4] = -1
    /\ CayleyAt(bin2canon[6], bin2canon[4]) = <<CH_minus>> \o bin2canon[2]
    /\ signs[2, 6] = 1
    /\ CayleyAt(bin2canon[2], bin2canon[6]) = bin2canon[4]
    /\ signs[3, 5] = 0

(***************************************************************************)
(* C12.  The multiplication of basis blades the sign table encodes is      *)
(* associative, null generators included: for all blade indices I, J, K,   *)
(* signs[I, J] * signs[I XOR J, K] = signs[J, K] * signs[I, J XOR K].      *)
(***************************************************************************)
\* the sign of (I J) K and of I (J K)
LeftSign(i, j, k) == signs[i, j] * signs[XorIndex(i, j), k]
RightSign(i, j, k) == signs[j, k] * signs[i, XorIndex(j, k)]

C12_Associative ==
    Ready =>
        \A i, j, k \in 0 .. Size - 1 :
            /\ LeftSign(i, j, k) = RightSign(i, j, k)
            /\ (LeftSign(i, j, k) = 0) <=> (RightSign(i, j, k) = 0)

\* signature [0, 1, -1]: a triple whose two factors differ but whose products
\* agree at -1, and a triple that is null on both sides, once by its first
\* product and once by its second
C12_Witness ==
    /\ Ready
    /\ d = 3
    /\ Sig = <<0, 1, -1>>
    /\ \E i, j, k \in 1 .. Size - 1 :
          /\ signs[i, j] # signs[j, k]
          /\ LeftSign(i, j, k) = -1
          /\ RightSign(i, j, k) = -1
    /\ \E i, j, k \in 1 .. Size - 1 :
          /\ signs[i, j] = 0
          /\ signs[j, k] # 0
          /\ signs[i, XorIndex(j, k)] = 0

(***************************************************************************)
(* C13.  _sort_product returns on every list of digits, repeated digits    *)
(* included; on return the list is in non-decreasing order, a permutation  *)
(* of the input, and the swap count is the number of inversions of the     *)
(* input: 3 for ['1', '2', '3', '1', '2'], 0 for lists of length 0 or 1.   *)
(***************************************************************************)
\* how often digit c occurs in w
Occurrences(w, c) == Cardinality({k \in 1 .. Len(w) : w[k] = c})

\* the list and the count at the return
SortResult ==
    /\ \A k \in 1 .. Len(sorter.prod) - 1 : sorter.prod[k] <= sorter.prod[k + 1]
    /\ Len(sorter.prod) = Len(sorter.arg)
    /\ \A c \in SortDigits : Occurrences(sorter.prod, c) = Occurrences(sorter.arg, c)
    /\ sorter.swaps = Some(Inversions(sorter.arg))
    /\ Len(sorter.arg) <= 1 => sorter.swaps = Some(0)
    /\ <<sorter.prod, sorter.swaps[1]>> = SortProduct(sorter.arg)

C13_SortTerminates ==
    /\ <>(sorter.pc = "done")
    /\ [](sorter.pc = "done" => SortResult)

\* the call on ['1', '2', '3', '1', '2'] has returned 3
C13_Witness ==
    /\ sorter.pc = "done"
    /\ sorter.arg = <<CH_0 + 1, CH_0 + 2, CH_0 + 3, CH_0 + 1, CH_0 + 2>>
    /\ sorter.prod = <<CH_0 + 1, CH_0 + 1, CH_0 + 2, CH_0 + 2, CH_0 + 3>>
    /\ sorter.swaps = Some(3)
    /\ sorter.prev_swap = Some(3)

====
